---------------------------- MODULE Spec2Model ----------------------------
(***************************************************************************)
(* Model of package fakegopath (src/fakegopath.go): temporary go source    *)
(* trees.  The state is the file system (directories and files with their  *)
(* bytes), the two copies of the search path (build.Default.GOPATH and the *)
(* GOPATH environment variable) and the Temporary values handed out.       *)
(*                                                                         *)
(* A path is a sequence of components (<<"d", "src">> is /d/src); a file   *)
(* content is a sequence of bytes; the search path is a string.            *)
(*                                                                         *)
(* The package is single-threaded: every call is one step.  A Temporary is *)
(* used until its Reset and reset once.  Three specifications share the    *)
(* actions: Spec (every call of the package, on several Temporary values), *)
(* SpecPath (NewTemporary, KeepTempDir and Reset with other code writing   *)
(* the search path in between) and SpecFiles (one Temporary, from either   *)
(* constructor, and every call on it).                                     *)
(***************************************************************************)
EXTENDS Naturals, Sequences, FiniteSets, TLC

\* ------------------------------------------------------------------ bounds
MaxTemps == 2      \* Temporary values constructed in one run
MaxIngest == 2     \* ingestion calls (WriteFile, CopyFile, GenerateFile, Copy)
MaxFiles == 2      \* entries of a SourceFile list
MaxExternal == 1   \* writes of the search path by code outside the package

\* ------------------------------------------------------------------ inputs
\* Caller-supplied roots; /x is a regular file, so NewTemporary fails on it.
Dirs == {<<"d">>, <<"x">>}
\* File names relative to the src directory.
RelFiles == {<<"a">>, <<"a", "f">>}
\* Byte contents written by callers.
Contents == {<<1>>, <<2, 2>>}
\* SourceFile.Content == nil
Nil == "nil"
\* Sources for CopyFile: a regular file, a missing path, a directory.
SrcPaths == {<<"x">>, <<"missing">>, <<"tmp">>}
\* Prefixes given to ioutil.TempDir; one holds a path separator.
Prefixes == {"p", "p/q"}
\* Values of the GOPATH environment variable, at start or set by other code.
GoPaths == {"", "/g"}
\* go/build's default for build.Default.GOPATH when GOPATH is unset.
DefaultGOPATH == "/h/go"
\* The SourceFile values callers pass.
SourceFiles ==
    { [Src |-> <<>>, Dest |-> <<"a", "f">>, Content |-> <<2, 2>>],
      [Src |-> <<"x">>, Dest |-> <<"a">>, Content |-> Nil],
      [Src |-> <<"missing">>, Dest |-> <<"a">>, Content |-> Nil] }
\* Lists of at most MaxFiles SourceFile values.
FileLists == UNION {[1..n -> SourceFiles] : n \in 0..MaxFiles}
\* Templates with their arguments: Execute fails, or produces out.
Templates == {[fails |-> TRUE, out |-> <<>>], [fails |-> FALSE, out |-> <<1>>]}

VARIABLES
    buildGOPATH,  \* build.Default.GOPATH, the in-process cache
    envGOPATH,    \* os.Getenv("GOPATH")
    fs,           \* [dirs: set of paths, files: path -> content]
    temps,        \* sequence of the Temporary values constructed
    nIngest,      \* ingestion calls made
    nExternal,    \* external writes made
    last,         \* the last completed call: operation, arguments, result
    before,       \* per Temporary: the search path just before its constructor
    initial,      \* the search path when the process started
    live,         \* the Temporary values not yet reset
    nest          \* the updating Temporary values not yet reset, in order of
                  \* construction, and whether every Reset so far took the last

vars == <<buildGOPATH, envGOPATH, fs, temps, nIngest, nExternal,
          last, before, initial, live, nest>>

\* ------------------------------------------------------------- file system
\* filepath.Join(p, q) for clean paths
Join(p, q) == p \o q

\* filepath.Dir
Dir(p) == SubSeq(p, 1, Len(p) - 1)

\* p and its ancestors below the root
Ancestors(p) == {SubSeq(p, 1, i) : i \in 1..Len(p)}

IsPrefix(p, q) == Len(p) <= Len(q) /\ SubSeq(q, 1, Len(p)) = p

RECURSIVE PathStr(_)
\* the string of a path: "/d/src"
PathStr(p) == IF p = <<>> THEN "" ELSE PathStr(Dir(p)) \o "/" \o p[Len(p)]

IsDir(f, p) == p \in f.dirs
IsFile(f, p) == p \in DOMAIN f.files
Exists(f, p) == IsDir(f, p) \/ IsFile(f, p)

\* os.MkdirAll(p, 0700): fails when p or an ancestor is a regular file,
\* else creates every missing ancestor and p.
MkdirAll(f, p) ==
    IF \E a \in Ancestors(p) : IsFile(f, a)
    THEN [err |-> "mkdir", fs |-> f]
    ELSE [err |-> "", fs |-> [f EXCEPT !.dirs = @ \cup Ancestors(p)]]

\* os.RemoveAll(p)
RemoveAll(f, p) ==
    [dirs  |-> {d \in f.dirs : ~IsPrefix(p, d)},
     files |-> [q \in {r \in DOMAIN f.files : ~IsPrefix(p, r)} |-> f.files[q]]]

\* (variant) the file is truncated when opened
Truncate(old, c) == c

\* the bytes of a file after writing c at offset 0 without truncation
Overwrite(old, c) ==
    IF Len(old) > Len(c) THEN c \o SubSeq(old, Len(c) + 1, Len(old)) ELSE c

PutFile(f, p, c) ==
    [f EXCEPT !.files = [q \in DOMAIN f.files \cup {p} |->
                            IF q = p THEN c ELSE f.files[q]]]


\* ------------------------------------------------------------ the package
\* The process state the package reads and writes.
World == [build |-> buildGOPATH, env |-> envGOPATH, fs |-> fs]

\* a bytes.Buffer holding c, as an io.Reader
Buffer(c) == [fails |-> FALSE, bytes |-> c]

\* an opened path as an io.Reader: reading a directory fails
Opened(f, p) ==
    IF IsDir(f, p) THEN [fails |-> TRUE, bytes |-> <<>>]
    ELSE [fails |-> FALSE, bytes |-> f.files[p]]

\* (t *Temporary) WriteFile(file, contents)
WriteFile(w, t, file, contents) ==
    LET fullPath == Join(t.Src, file)
        fileDir == Dir(fullPath)
        made == MkdirAll(w.fs, fileDir)
        \* os.OpenFile(fullPath, O_CREATE|O_RDWR, 0600)
        opened == IF IsFile(made.fs, fullPath) THEN made.fs
                  ELSE PutFile(made.fs, fullPath, <<>>)
    IN  IF made.err # "" THEN [err |-> "mkdir", w |-> w]
        ELSE IF IsDir(made.fs, fullPath)
        THEN [err |-> "open", w |-> [w EXCEPT !.fs = made.fs]]
        ELSE IF contents.fails
        THEN [err |-> "copy", w |-> [w EXCEPT !.fs = opened]]
        ELSE [err |-> "",
              w |-> [w EXCEPT !.fs = PutFile(opened, fullPath,
                        Overwrite(opened.files[fullPath], contents.bytes))]]

\* (t *Temporary) CopyFile(dest, src)
CopyFile(w, t, dest, src) ==
    IF ~Exists(w.fs, src) THEN [err |-> "opensrc", w |-> w]
    ELSE WriteFile(w, t, dest, Opened(w.fs, src))

\* (t *Temporary) GenerateFile(file, tpl, args); tpl.Execute(buf, args) is
\* the templating engine's: it fails, or fills buf with tpl.out.
GenerateFile(w, t, file, tpl) ==
    IF tpl.fails THEN [err |-> "template", w |-> w]
    ELSE WriteFile(w, t, file, Buffer(tpl.out))

\* one entry of the loop of Copy
CopyEntry(w, t, f) ==
    IF f.Content # Nil THEN WriteFile(w, t, f.Dest, Buffer(f.Content))
    ELSE CopyFile(w, t, f.Dest, f.Src)

RECURSIVE CopyFromContinue(_, _, _, _)
\* (variant) the loop goes on after a failed entry and returns the first error
CopyFromContinue(w, t, files, i) ==
    IF i > Len(files) THEN [err |-> "", w |-> w, at |-> 0]
    ELSE LET r == CopyEntry(w, t, files[i])
             rest == CopyFromContinue(r.w, t, files, i + 1)
         IN  IF r.err # "" THEN [err |-> r.err, w |-> rest.w, at |-> i]
             ELSE rest

RECURSIVE CopyFrom(_, _, _, _)
\* the loop of Copy from entry i on; at is the entry that failed (0: none)
CopyFrom(w, t, files, i) ==
    IF i > Len(files) THEN [err |-> "", w |-> w, at |-> 0]
    ELSE LET r == CopyEntry(w, t, files[i])
         IN  IF r.err # "" THEN [err |-> r.err, w |-> r.w, at |-> i]
             ELSE CopyFrom(r.w, t, files, i + 1)

\* (t *Temporary) Copy(files)
Copy(w, t, files) == CopyFrom(w, t, files, 1)

\* (variant) the flag is stored as given
KeepTempDirAsGiven(t, keep) == [t EXCEPT !.deleteDir = keep]

\* (t *Temporary) KeepTempDir(keep)
KeepTempDir(t, keep) == [t EXCEPT !.deleteDir = ~keep]

\* (variant) build.Default.GOPATH + ":" + dir
Appended(dir, gopath) == gopath \o ":" \o PathStr(dir)

\* dir + ":" + build.Default.GOPATH
Prefixed(dir, gopath) == PathStr(dir) \o ":" \o gopath

\* (variant) only the first directory of the list is created
MkdirFirst(f, ds, i) == MkdirAll(f, ds[1])

RECURSIVE MkdirEach(_, _, _)
\* the loop of NewTemporary over {t.Src, t.Pkg, t.Bin}, from entry i on
MkdirEach(f, ds, i) ==
    IF i > Len(ds) THEN [err |-> "", fs |-> f]
    ELSE LET r == MkdirAll(f, ds[i])
         IN  IF r.err # "" THEN r ELSE MkdirEach(r.fs, ds, i + 1)

NoTemporary == [Path |-> <<>>, Orig |-> "", Pkg |-> <<>>, Src |-> <<>>,
                Bin |-> <<>>, update |-> FALSE, deleteDir |-> FALSE]

\* (variant) the values are not compared
AgreeUnchecked(w) == TRUE

\* Whether NewTemporary goes on to change the search path: the values agree.
Agree(w) == w.env = w.build

\* NewTemporary(dir, updateGoPath)
NewTemporary(w, dir, updateGoPath) ==
    LET t == [Path |-> dir, Orig |-> "",
              Pkg |-> Join(dir, <<"pkg">>), Src |-> Join(dir, <<"src">>),
              Bin |-> Join(dir, <<"bin">>),
              update |-> updateGoPath, deleteDir |-> FALSE]
        made == MkdirEach(w.fs, <<t.Src, t.Pkg, t.Bin>>, 1)
        w1 == [w EXCEPT !.fs = made.fs]
        gopath == Prefixed(dir, w.build)
    IN  IF made.err # "" THEN [err |-> "mkdir", t |-> NoTemporary, w |-> w1]
        ELSE IF ~updateGoPath THEN [err |-> "", t |-> t, w |-> w1]
        ELSE IF ~Agree(w) THEN [err |-> "mismatch", t |-> NoTemporary, w |-> w1]
        ELSE [err |-> "", t |-> [t EXCEPT !.Orig = w.build],
              w |-> [w1 EXCEPT !.build = gopath, !.env = gopath]]

\* (variant) the search path is restored only while it is still the value
\* the constructor wrote
RestoreIfOurs(w, t) ==
    IF t.update /\ w.build = Prefixed(t.Path, t.Orig) /\ w.env = w.build
    THEN [w EXCEPT !.build = t.Orig, !.env = t.Orig] ELSE w

\* (variant) only the environment variable is restored
RestoreEnvOnly(w, t) ==
    IF t.update THEN [w EXCEPT !.env = t.Orig] ELSE w

\* (variant) only build.Default.GOPATH is restored
RestoreCacheOnly(w, t) ==
    IF t.update THEN [w EXCEPT !.build = t.Orig] ELSE w

\* (t *Temporary) Reset(): the search path
Restore(w, t) ==
    IF t.update THEN [w EXCEPT !.build = t.Orig, !.env = t.Orig] ELSE w

\* (t *Temporary) Reset()
Reset(w, t) ==
    LET w1 == Restore(w, t)
    IN  IF t.deleteDir THEN [w1 EXCEPT !.fs = RemoveAll(w1.fs, t.Path)]
        ELSE w1

\* (variant) a failed Copy removes the directory as a failed NewTemporary does
ResetDirOnly(w, t) == [w EXCEPT !.fs = RemoveAll(w.fs, t.Path)]

\* The cleanup of NewTemporaryWithFiles after a failed Copy: t.Reset()
Cleanup(w, t) == Reset(w, t)

\* A name ioutil.TempDir("", prefix) can try: prefix and a number.
TempName(prefix, n) == <<"tmp", prefix \o ToString(n)>>

\* ioutil.TempDir("", prefix): fails on a prefix with a path separator, else
\* creates a directory under a name that is not taken (here the first).
TempDir(f, prefix) ==
    LET n == CHOOSE i \in 1..(Cardinality(f.dirs) + 1) :
                 /\ ~Exists(f, TempName(prefix, i))
                 /\ \A j \in 1..(i - 1) : Exists(f, TempName(prefix, j))
    IN  IF prefix = "p/q" THEN [err |-> "tempdir", dir |-> <<>>, fs |-> f]
        ELSE [err |-> "", dir |-> TempName(prefix, n),
              fs |-> [f EXCEPT !.dirs = @ \cup {TempName(prefix, n)}]]

\* NewTemporaryWithFiles(prefix, files)
NewTemporaryWithFiles(w, prefix, files) ==
    LET td == TempDir(w.fs, prefix)
        nt == NewTemporary([w EXCEPT !.fs = td.fs], td.dir, TRUE)
        t == [nt.t EXCEPT !.deleteDir = TRUE]
        cp == Copy(nt.w, t, files)
    IN  IF td.err # ""
        THEN [err |-> td.err, t |-> NoTemporary, w |-> w, dir |-> <<>>, at |-> 0]
        ELSE IF nt.err # ""
        THEN [err |-> nt.err, t |-> NoTemporary,
              w |-> [nt.w EXCEPT !.fs = RemoveAll(nt.w.fs, td.dir)],
              dir |-> td.dir, at |-> 0]
        ELSE IF cp.err # ""
        THEN [err |-> cp.err, t |-> NoTemporary, w |-> Cleanup(cp.w, t),
              dir |-> td.dir, at |-> cp.at]
        ELSE [err |-> "", t |-> t, w |-> cp.w, dir |-> td.dir, at |-> 0]


\* ------------------------------------------------------------------ calls
\* A Temporary is used until its Reset, and reset once.
Ids == live

Call(op, id, err, arg) == [op |-> op, id |-> id, err |-> err, arg |-> arg]

\* The world after a call.
Becomes(w) ==
    /\ buildGOPATH' = w.build
    /\ envGOPATH' = w.env
    /\ fs' = w.fs

Init ==
    /\ envGOPATH \in GoPaths
    /\ buildGOPATH \in {envGOPATH} \cup
                       (IF envGOPATH = "" THEN {DefaultGOPATH} ELSE {})
    /\ fs = [dirs |-> {<<"tmp">>}, files |-> (<<"x">> :> <<1>>)]
    /\ temps = <<>>
    /\ nIngest = 0
    /\ nExternal = 0
    /\ last = Call("init", 0, "", <<>>)
    /\ before = <<>>
    /\ initial = [build |-> buildGOPATH, env |-> envGOPATH]
    /\ live = {}
    /\ nest = [stack |-> <<>>, ok |-> TRUE]

\* The constructor returned t (or failed): the Temporary is handed out.
Constructed(r) ==
    /\ temps' = IF r.err = "" THEN Append(temps, r.t) ELSE temps
    /\ before' = IF r.err = ""
                 THEN Append(before,
                             IF r.t.update
                             THEN [build |-> buildGOPATH, env |-> envGOPATH,
                                   external |-> nExternal]
                             ELSE [build |-> "", env |-> "", external |-> 0])
                 ELSE before
    /\ live' = IF r.err = "" THEN live \cup {Len(temps) + 1} ELSE live
    /\ UNCHANGED initial
    /\ nest' = IF r.err = "" /\ r.t.update /\ nest.ok
               THEN [nest EXCEPT !.stack = Append(@, Len(temps) + 1)]
               ELSE nest

CallNewTemporary(dir, updateGoPath) ==
    /\ Len(temps) < MaxTemps
    /\ LET r == NewTemporary(World, dir, updateGoPath)
       IN  /\ Becomes(r.w)
           /\ Constructed(r)
           /\ last' = Call("NewTemporary",
                           IF r.err = "" THEN Len(temps) + 1 ELSE 0, r.err,
                           [dir |-> dir, update |-> updateGoPath])
    /\ UNCHANGED <<nIngest, nExternal>>

CallNewTemporaryWithFiles(prefix, files) ==
    /\ Len(temps) < MaxTemps
    /\ LET r == NewTemporaryWithFiles(World, prefix, files)
       IN  /\ Becomes(r.w)
           /\ Constructed(r)
           /\ last' = Call("NewTemporaryWithFiles",
                           IF r.err = "" THEN Len(temps) + 1 ELSE 0, r.err,
                           [dir |-> r.dir, files |-> files, at |-> r.at])
    /\ UNCHANGED <<nIngest, nExternal>>

\* An ingestion call on temps[id] with result r.
Ingested(op, id, r, arg) ==
    /\ nIngest < MaxIngest
    /\ nIngest' = nIngest + 1
    /\ Becomes(r.w)
    /\ last' = Call(op, id, r.err, arg)
    /\ UNCHANGED <<temps, nExternal, before, initial, live, nest>>

CallWriteFile(id, file, c) ==
    Ingested("WriteFile", id, WriteFile(World, temps[id], file, Buffer(c)),
             [file |-> file, bytes |-> c])

CallCopyFile(id, dest, src) ==
    Ingested("CopyFile", id, CopyFile(World, temps[id], dest, src),
             [file |-> dest, src |-> src])

CallGenerateFile(id, file, tpl) ==
    Ingested("GenerateFile", id, GenerateFile(World, temps[id], file, tpl),
             [file |-> file, tpl |-> tpl])

CallCopy(id, files) ==
    LET r == Copy(World, temps[id], files)
    IN  Ingested("Copy", id, r, [files |-> files, at |-> r.at])

CallKeepTempDir(id, keep) ==
    /\ temps' = [temps EXCEPT ![id] = KeepTempDir(@, keep)]
    /\ last' = Call("KeepTempDir", id, "", [keep |-> keep])
    /\ UNCHANGED <<buildGOPATH, envGOPATH, fs, nIngest, nExternal,
                   before, initial, live, nest>>

CallReset(id) ==
    /\ Becomes(Reset(World, temps[id]))
    /\ last' = Call("Reset", id, "", <<>>)
    /\ live' = live \ {id}
    /\ nest' = IF ~temps[id].update THEN nest
               ELSE IF nest.stack # <<>> /\ nest.stack[Len(nest.stack)] = id
               THEN [nest EXCEPT !.stack = SubSeq(@, 1, Len(@) - 1)]
               ELSE [stack |-> <<>>, ok |-> FALSE]
    /\ UNCHANGED <<temps, nIngest, nExternal, before, initial>>

\* Other code of the process sets the environment variable.
ExternalSetenv(v) ==
    /\ nExternal < MaxExternal
    /\ nExternal' = nExternal + 1
    /\ envGOPATH' = v
    /\ last' = Call("Setenv", 0, "", [value |-> v])
    /\ UNCHANGED <<buildGOPATH, fs, temps, nIngest, before, initial,
                   live, nest>>

\* Other code of the process assigns build.Default.GOPATH.
ExternalAssign(v) ==
    /\ nExternal < MaxExternal
    /\ nExternal' = nExternal + 1
    /\ buildGOPATH' = v
    /\ last' = Call("Assign", 0, "", [value |-> v])
    /\ UNCHANGED <<envGOPATH, fs, temps, nIngest, before, initial,
                   live, nest>>

\* The calls of the package.
Next ==
    \/ \E dir \in Dirs, u \in BOOLEAN : CallNewTemporary(dir, u)
    \/ \E prefix \in Prefixes, files \in FileLists :
           CallNewTemporaryWithFiles(prefix, files)
    \/ \E id \in Ids, file \in RelFiles, c \in Contents :
           CallWriteFile(id, file, c)
    \/ \E id \in Ids, dest \in RelFiles, src \in SrcPaths :
           CallCopyFile(id, dest, src)
    \/ \E id \in Ids, file \in RelFiles, tpl \in Templates :
           CallGenerateFile(id, file, tpl)
    \/ \E id \in Ids, files \in FileLists : CallCopy(id, files)
    \/ \E id \in Ids, keep \in BOOLEAN : CallKeepTempDir(id, keep)
    \/ \E id \in Ids : CallReset(id)

Spec == Init /\ [][Next]_vars

\* The search path: Temporary values made by NewTemporary and reset, with
\* other code of the process writing the search path in between.
NextPath ==
    \/ \E dir \in Dirs, u \in BOOLEAN : CallNewTemporary(dir, u)
    \/ \E id \in Ids, keep \in BOOLEAN : CallKeepTempDir(id, keep)
    \/ \E id \in Ids : CallReset(id)
    \/ \E v \in GoPaths : ExternalSetenv(v)
    \/ \E v \in GoPaths : ExternalAssign(v)

SpecPath == Init /\ [][NextPath]_vars

\* The files: one Temporary, made by either constructor, and the calls on it.
NextFiles ==
    \/ \E dir \in Dirs, u \in BOOLEAN :
           temps = <<>> /\ CallNewTemporary(dir, u)
    \/ \E prefix \in Prefixes, files \in FileLists :
           temps = <<>> /\ CallNewTemporaryWithFiles(prefix, files)
    \/ \E id \in Ids, file \in RelFiles, c \in Contents :
           CallWriteFile(id, file, c)
    \/ \E id \in Ids, dest \in RelFiles, src \in SrcPaths :
           CallCopyFile(id, dest, src)
    \/ \E id \in Ids, file \in RelFiles, tpl \in Templates :
           CallGenerateFile(id, file, tpl)
    \/ \E id \in Ids, files \in FileLists : CallCopy(id, files)
    \/ \E id \in Ids, keep \in BOOLEAN : CallKeepTempDir(id, keep)
    \/ \E id \in Ids : CallReset(id)

SpecFiles == Init /\ [][NextFiles]_vars


\* ------------------------------------------------------------- properties
\* src, pkg and bin of t are directories
TreeExists(f, t) == IsDir(f, t.Src) /\ IsDir(f, t.Pkg) /\ IsDir(f, t.Bin)

\* nothing exists at p or below it
NoneUnder(f, p) == \A q \in f.dirs \cup DOMAIN f.files : ~IsPrefix(p, q)

C2_ResetRestores ==
    (last.op = "Reset" /\ temps[last.id].update)
        => /\ buildGOPATH = before[last.id].build
           /\ envGOPATH = before[last.id].env

C2_Witness ==
    /\ last.op = "Reset" /\ temps[last.id].update
    /\ nExternal > before[last.id].external
    /\ buildGOPATH = "" /\ envGOPATH = ""

\* C3 as claimed: NewTemporary(dir, true) called while build.Default.GOPATH
\* differs from the environment variable returns the mismatch error and no
\* Temporary, and leaves both values as they were.
C3_AlwaysMismatch ==
    [][(last'.op = "NewTemporary" /\ last'.arg.update
            /\ buildGOPATH # envGOPATH)
        => /\ last'.err = "mismatch"
           /\ last'.id = 0 /\ temps' = temps
           /\ buildGOPATH' = buildGOPATH /\ envGOPATH' = envGOPATH]_vars

\* C3 (amended): NewTemporary(dir, true) called while build.Default.GOPATH
\* differs from the environment variable fails, returns no Temporary and
\* leaves both values as they were; the error is the mismatch error exactly
\* when src, pkg and bin could be created, and the directory error otherwise.
C3_MismatchAfterMkdir ==
    [][(last'.op = "NewTemporary" /\ last'.arg.update
            /\ buildGOPATH # envGOPATH)
        => /\ last'.err \in {"mismatch", "mkdir"}
           /\ last'.err = "mismatch" <=>
                  /\ IsDir(fs', Join(last'.arg.dir, <<"src">>))
                  /\ IsDir(fs', Join(last'.arg.dir, <<"pkg">>))
                  /\ IsDir(fs', Join(last'.arg.dir, <<"bin">>))
           /\ last'.id = 0 /\ temps' = temps
           /\ buildGOPATH' = buildGOPATH /\ envGOPATH' = envGOPATH]_vars

C3_Witness ==
    /\ last.op = "NewTemporary" /\ last.arg.update /\ last.err = "mismatch"
    /\ buildGOPATH # envGOPATH
    /\ IsDir(fs, <<"d", "src">>)

\* C4: when NewTemporaryWithFiles fails after its temporary directory was
\* allocated (NewTemporary failed, or Copy failed at some entry), nothing
\* exists at the allocated directory or below it, and build.Default.GOPATH
\* and the environment variable hold their values of before the call.
C4_NoLeak ==
    [][(last'.op = "NewTemporaryWithFiles" /\ last'.err # ""
            /\ last'.arg.dir # <<>>)
        => /\ NoneUnder(fs', last'.arg.dir)
           /\ buildGOPATH' = buildGOPATH /\ envGOPATH' = envGOPATH
           /\ temps' = temps]_vars

C4_Witness ==
    /\ last.op = "NewTemporaryWithFiles" /\ last.err # ""
    /\ last.arg.at = 2
    /\ NoneUnder(fs, last.arg.dir)
    /\ buildGOPATH = "/g"

\* the full path of entry j of the list of the Copy call just made
DestOf(j) == Join(temps[last'.id].Src, last'.arg.files[j].Dest)

\* the bytes entry j of that list carries, read before the call
BytesOf(j) ==
    IF last'.arg.files[j].Content # Nil THEN last'.arg.files[j].Content
    ELSE fs.files[last'.arg.files[j].Src]

\* C5: Copy takes its list in order and stops at the first entry k that
\* fails: it returns an error exactly when some entry failed, the error of
\* opening the source when entry k names a missing source; every entry
\* before k has its file in the source root, holding the entry's bytes when
\* no other entry before k names that file and no file was there before;
\* nothing is rolled back; and nothing is created for an entry after k:
\* every path that is new after the call belongs to the destination of an
\* entry up to k.
C5_FailFast ==
    [][(last'.op = "Copy")
        => LET k == last'.arg.at
               n == Len(last'.arg.files)
               done == IF k = 0 THEN n ELSE k - 1
               tried == IF k = 0 THEN n ELSE k
           IN  /\ (last'.err # "") <=> (k # 0)
               /\ k \in 0..n
               /\ (k # 0 /\ last'.arg.files[tried].Content = Nil
                       /\ ~Exists(fs, last'.arg.files[tried].Src))
                      => last'.err = "opensrc"
               /\ \A j \in 1..done :
                     /\ IsFile(fs', DestOf(j))
                     /\ (/\ \A i \in 1..done : i # j => DestOf(i) # DestOf(j)
                         /\ ~IsFile(fs, DestOf(j)))
                            => fs'.files[DestOf(j)] = BytesOf(j)
               /\ \A q \in (fs'.dirs \cup DOMAIN fs'.files) \
                           (fs.dirs \cup DOMAIN fs.files) :
                     \E j \in 1..tried : IsPrefix(q, DestOf(j))
               /\ \A q \in DOMAIN fs.files : IsFile(fs', q)
               /\ fs.dirs \subseteq fs'.dirs]_vars

C5_Witness ==
    /\ last.op = "Copy" /\ last.err = "opensrc" /\ last.arg.at = 1
    /\ Len(last.arg.files) = 2
    /\ last.arg.files[2].Content # Nil
    /\ ~Exists(fs, Join(temps[last.id].Src, last.arg.files[2].Dest))

\* C6: after a successful NewTemporary(dir, update), for either update,
\* dir/src, dir/pkg and dir/bin are directories, and every WriteFile,
\* CopyFile, GenerateFile, Copy and KeepTempDir call, failed or not, leaves
\* them directories.
C6_TreeKept ==
    [][/\ (last'.op = "NewTemporary" /\ last'.err = "")
            => /\ TreeExists(fs', temps'[last'.id])
               /\ temps'[last'.id].Src = Join(last'.arg.dir, <<"src">>)
               /\ temps'[last'.id].Pkg = Join(last'.arg.dir, <<"pkg">>)
               /\ temps'[last'.id].Bin = Join(last'.arg.dir, <<"bin">>)
       /\ (last'.op \in {"WriteFile", "CopyFile", "GenerateFile", "Copy",
                         "KeepTempDir"})
            => \A id \in live : TreeExists(fs, temps[id])
                                    => TreeExists(fs', temps'[id])]_vars

C6_Witness ==
    /\ last.op = "CopyFile" /\ last.err = "copy"
    /\ ~temps[last.id].update
    /\ last.id \in live
    /\ TreeExists(fs, temps[last.id])

C8_NoTruncate ==
    [][(last'.op = "WriteFile" /\ last'.err = "")
        => LET p == Join(temps[last'.id].Src, last'.arg.file)
               c == last'.arg.bytes
               old == IF IsFile(fs, p) THEN fs.files[p] ELSE <<>>
               new == fs'.files[p]
           IN  /\ Ancestors(Dir(p)) \subseteq fs'.dirs
               /\ IsFile(fs', p)
               /\ Len(new) = IF Len(old) > Len(c) THEN Len(old) ELSE Len(c)
               /\ \A i \in 1..Len(new) :
                     new[i] = IF i <= Len(c) THEN c[i] ELSE old[i]]_vars

C8_Witness ==
    /\ last.op = "WriteFile" /\ last.err = ""
    /\ last.arg.bytes = <<1>>
    /\ fs.files[Join(temps[last.id].Src, last.arg.file)] = <<1, 2>>

\* the updating Temporary values
Updating == {id \in 1..Len(temps) : temps[id].update}

\* C9: with updating Temporary values made one after another, no other
\* writer of the search path, and each Reset taking the one made last among
\* those not yet reset, every Reset leaves build.Default.GOPATH and the
\* environment variable at the value of just before that Temporary was
\* made, and once all are reset both hold the value of before the first.
C9_Nested ==
    (nest.ok /\ nExternal = 0)
        => /\ (last.op = "Reset" /\ temps[last.id].update)
                => /\ buildGOPATH = before[last.id].build
                   /\ envGOPATH = before[last.id].build
           /\ (Updating # {} /\ nest.stack = <<>>)
                => /\ buildGOPATH = initial.build
                   /\ envGOPATH = initial.build
           /\ nest.stack # <<>>
                => LET top == nest.stack[Len(nest.stack)]
                   IN  /\ buildGOPATH = PathStr(temps[top].Path) \o ":"
                                            \o before[top].build
                       /\ envGOPATH = buildGOPATH

C9_Witness ==
    /\ nest.ok /\ nExternal = 0
    /\ Len(temps) = 2 /\ Updating = {1, 2} /\ live = {}
    /\ last.op = "Reset" /\ last.id = 1
    /\ buildGOPATH = initial.build

\* C10: when build.Default.GOPATH equals the environment variable at the
\* start and no code outside the package writes either, they are equal
\* after every call.
C10_CacheIsEnv ==
    (initial.build = initial.env /\ nExternal = 0)
        => buildGOPATH = envGOPATH

C10_Witness ==
    /\ initial.build = initial.env /\ nExternal = 0
    /\ last.op = "Reset" /\ temps[last.id].update
    /\ Len(temps) = 2
    /\ buildGOPATH = envGOPATH /\ buildGOPATH # initial.build

=============================================================================
